---- MODULE Spec2Model ----
(***************************************************************************)
(* Lifecycle controller of the curvefs metadata server (class Mds,         *)
(* curvefs/src/mds/mds.cpp).                                               *)
(*                                                                         *)
(* One driver thread calls InitOptions, Init, StartDummyServer,            *)
(* StartCompaginLeader, Run and Stop one after the other, in any order;    *)
(* pc is its position inside Run or StartCompaginLeader.  Stop may also be *)
(* called from a second thread while the driver is inside Run or           *)
(* StartCompaginLeader.  LOG(FATAL) ends the process: fatal records the    *)
(* message and no step follows.                                            *)
(***************************************************************************)
EXTENDS Integers, FiniteSets, Sequences, TLC

\* Bound on the number of calls of the public methods in one process lifetime.
MaxCalls == 6
\* Bound on the number of failing CampaginLeader() attempts of one call.
MaxFails == 2

VARIABLES
    conf_,              \* configuration: [set: is conf_ non-null, keys: key groups present]
    inited_,            \* Mds::inited_
    running_,           \* Mds::running_
    fsManager_,         \* "null", "created", "inited", "uninited"
    etcdClientInited_,  \* Mds::etcdClientInited_
    etcdClient_,        \* "null", "created" (constructed), "ready" (Init returned EtcdOK)
    leaderElection_,    \* "null", "created", "observing"
    status_,            \* value of the status variable ("" = default constructed)
    statusExposed,      \* status_.expose() has been called
    fatal,              \* "none", or the LOG(FATAL) message that ended the process
    pc,                 \* driver thread: "idle", "run_started", "run_blocked", "campaign"
    server,             \* the brpc::Server local to Run: "none", "running", "stopped"
    serverStarts,       \* number of successful server.Start()
    addServiceCount,    \* number of server.AddService() calls
    askedToQuit,        \* the quit flag RunUntilAskedToQuit() waits for
    quitSignal,         \* an external quit signal (SIGTERM/SIGINT) was delivered
    askToQuitCount,     \* number of brpc::AskToQuit() issued by Stop
    uninitCount,        \* number of fsManager_->Uninit() issued by Stop
    etcdInitCount,      \* number of etcdClient_->Init() calls
    probeCount,         \* number of etcdClient_->Get("test") calls
    probeResult,        \* status the probe returned, "none" before the probe
    campaignCalls,      \* CampaginLeader() calls of the current/last StartCompaginLeader
    campaignFails,      \* failed CampaginLeader() calls of the current/last StartCompaginLeader
    wonCount,           \* number of CampaginLeader() calls that returned 0
    observerStarts,     \* number of StartObserverLeader() calls
    observerStatus,     \* status value when StartObserverLeader() was last called, "none" before
    retried,            \* flips on every failed attempt past the MaxFails counted ones
    calls,              \* number of public method calls so far
    lastOp              \* the public method called last

confVars   == <<conf_>>
lifeVars   == <<inited_, running_, fsManager_>>
etcdVars   == <<etcdClientInited_, etcdClient_, etcdInitCount, probeCount, probeResult>>
statusVars == <<status_, statusExposed>>
rpcVars    == <<server, serverStarts, addServiceCount>>
quitVars   == <<askedToQuit, quitSignal, askToQuitCount, uninitCount>>
elecVars   == <<leaderElection_, campaignCalls, campaignFails, wonCount, observerStarts,
                observerStatus, retried>>
callVars   == <<calls, lastOp>>

vars == <<conf_, inited_, running_, fsManager_, etcdClientInited_, etcdClient_,
          leaderElection_, status_, statusExposed, fatal, pc, server, serverStarts,
          addServiceCount, askedToQuit, quitSignal, askToQuitCount, uninitCount,
          etcdInitCount, probeCount, probeResult, campaignCalls, campaignFails,
          wonCount, observerStarts, observerStatus, retried, calls, lastOp>>

\* Groups of configuration keys: "mds" are the keys InitOptions reads,
\* "etcd" the etcd.* keys, "leader" the leader.* keys.
KeyGroups == {"mds", "etcd", "leader"}

\* Status codes of the etcd client; only EtcdOK and EtcdKeyNotExist are named by the code.
EtcdErrCode == {"EtcdOK", "EtcdKeyNotExist", "EtcdUnknown", "EtcdDeadlineExceeded"}

StatusValues == {"", "follower", "leader"}

FatalMessages == {"none", "GetValueFatalIfFail", "Init etcd client error",
                  "Check etcd failed", "fsManager Init fail", "add mdsService error",
                  "start brpc server error", "Start dummy server failed"}

Ops == {"none", "InitOptions", "Init", "Run", "Stop", "StartDummyServer",
        "StartCompaginLeader"}

TypeOK ==
    /\ conf_ \in [set : BOOLEAN, keys : SUBSET KeyGroups]
    /\ inited_ \in BOOLEAN /\ running_ \in BOOLEAN /\ etcdClientInited_ \in BOOLEAN
    /\ fsManager_ \in {"null", "created", "inited", "uninited"}
    /\ etcdClient_ \in {"null", "created", "ready"}
    /\ leaderElection_ \in {"null", "created", "observing"}
    /\ status_ \in StatusValues /\ statusExposed \in BOOLEAN
    /\ fatal \in FatalMessages
    /\ pc \in {"idle", "run_started", "run_blocked", "campaign"}
    /\ server \in {"none", "running", "stopped"}
    /\ serverStarts \in 0..MaxCalls /\ addServiceCount \in 0..MaxCalls
    /\ askedToQuit \in BOOLEAN /\ quitSignal \in BOOLEAN
    /\ askToQuitCount \in 0..MaxCalls /\ uninitCount \in 0..MaxCalls
    /\ etcdInitCount \in 0..MaxCalls /\ probeCount \in 0..MaxCalls
    /\ probeResult \in EtcdErrCode \cup {"none"}
    /\ campaignCalls \in 0..(MaxFails + 1) /\ campaignFails \in 0..MaxFails
    /\ wonCount \in 0..MaxCalls /\ observerStarts \in 0..MaxCalls
    /\ observerStatus \in StatusValues \cup {"none"} /\ retried \in BOOLEAN
    /\ calls \in 0..MaxCalls /\ lastOp \in Ops

\* Mds::Mds(): every flag false, every pointer null, status_ default constructed.
Init ==
    /\ conf_ = [set |-> FALSE, keys |-> {}]
    /\ inited_ = FALSE /\ running_ = FALSE /\ fsManager_ = "null"
    /\ etcdClientInited_ = FALSE /\ etcdClient_ = "null"
    /\ leaderElection_ = "null"
    /\ status_ = "" /\ statusExposed = FALSE
    /\ fatal = "none" /\ pc = "idle"
    /\ server = "none" /\ serverStarts = 0 /\ addServiceCount = 0
    /\ askedToQuit = FALSE /\ quitSignal = FALSE
    /\ askToQuitCount = 0 /\ uninitCount = 0
    /\ etcdInitCount = 0 /\ probeCount = 0 /\ probeResult = "none"
    /\ campaignCalls = 0 /\ campaignFails = 0 /\ wonCount = 0 /\ observerStarts = 0
    /\ observerStatus = "none" /\ retried = FALSE
    /\ calls = 0 /\ lastOp = "none"

\* The process is alive and may enter one more public method.
Alive == fatal = "none"
CanCall == Alive /\ calls < MaxCalls
Call(op) == calls' = calls + 1 /\ lastOp' = op

\* The driver thread is between two calls.
Idle == pc = "idle"


\* Mds::InitOptions: conf_ = std::move(conf), then the mds.*, space.* and
\* metaserver.* keys are read with GetValueFatalIfFail.
InitOptions ==
    /\ CanCall /\ Idle
    /\ Call("InitOptions")
    /\ \E keys \in SUBSET KeyGroups :
          /\ conf_' = [set |-> TRUE, keys |-> keys]
          /\ fatal' = IF "mds" \in keys THEN "none" ELSE "GetValueFatalIfFail"
    /\ UNCHANGED <<lifeVars, etcdVars, statusVars, rpcVars, quitVars, elecVars, pc>>

\* CheckEtcd with the EtcdKeyNotExist case forgotten.
CheckEtcd_OnlyOK(r) ==
    IF r # "EtcdOK" THEN FALSE ELSE TRUE

\* Mds::CheckEtcd: the probe Get("test") returned r.
CheckEtcd(r) ==
    IF r # "EtcdOK" /\ r # "EtcdKeyNotExist" THEN FALSE ELSE TRUE

\* InitEtcdClient without the early return on etcdClientInited_.
InitEtcdClient_NoGuard(r, g) ==
    LET now == [fatal |-> "none", inited |-> etcdClientInited_, client |-> etcdClient_,
                inits |-> etcdInitCount, probes |-> probeCount, probe |-> probeResult]
    IN  IF "etcd" \notin conf_.keys
             THEN [now EXCEPT !.fatal = "GetValueFatalIfFail"]
        ELSE IF r # "EtcdOK"
             THEN [now EXCEPT !.fatal = "Init etcd client error", !.client = "created",
                              !.inits = @ + 1]
        ELSE IF ~CheckEtcd(g)
             THEN [now EXCEPT !.fatal = "Check etcd failed", !.client = "ready",
                              !.inits = @ + 1, !.probes = @ + 1, !.probe = g]
        ELSE [now EXCEPT !.inited = TRUE, !.client = "ready",
                         !.inits = @ + 1, !.probes = @ + 1, !.probe = g]

\* Mds::InitEtcdClient, with r the status of etcdClient_->Init() and g the status
\* of the probe: the values of the etcd fields and the fatal message afterwards.
InitEtcdClient(r, g) ==
    LET now == [fatal |-> "none", inited |-> etcdClientInited_, client |-> etcdClient_,
                inits |-> etcdInitCount, probes |-> probeCount, probe |-> probeResult]
    IN  IF etcdClientInited_ THEN now
        ELSE IF "etcd" \notin conf_.keys
             THEN [now EXCEPT !.fatal = "GetValueFatalIfFail"]
        ELSE IF r # "EtcdOK"
             THEN [now EXCEPT !.fatal = "Init etcd client error", !.client = "created",
                              !.inits = @ + 1]
        ELSE IF ~CheckEtcd(g)
             THEN [now EXCEPT !.fatal = "Check etcd failed", !.client = "ready",
                              !.inits = @ + 1, !.probes = @ + 1, !.probe = g]
        ELSE [now EXCEPT !.inited = TRUE, !.client = "ready",
                         !.inits = @ + 1, !.probes = @ + 1, !.probe = g]

\* The etcd fields take the values InitEtcdClient computed.
SetEtcd(e) ==
    /\ etcdClientInited_' = e.inited
    /\ etcdClient_' = e.client
    /\ etcdInitCount' = e.inits
    /\ probeCount' = e.probes
    /\ probeResult' = e.probe

\* Init that does not look at the result of fsManager_->Init().
MdsInit_IgnoreManagerInit ==
    /\ CanCall /\ Idle /\ conf_.set
    /\ Call("Init")
    /\ \E r \in EtcdErrCode, g \in EtcdErrCode, ok \in BOOLEAN :
          LET e == InitEtcdClient(r, g) IN
          /\ SetEtcd(e)
          /\ IF e.fatal # "none"
             THEN /\ fatal' = e.fatal
                  /\ UNCHANGED <<inited_, fsManager_>>
             ELSE /\ fatal' = "none"
                  /\ fsManager_' = IF ok THEN "inited" ELSE "created"
                  /\ inited_' = TRUE
    /\ UNCHANGED <<confVars, running_, statusVars, rpcVars, quitVars, elecVars, pc>>

\* Mds::Init: InitEtcdClient, construction of the storage, the clients and the
\* manager, fsManager_->Init() (ok is its result), inited_ = true.
MdsInit ==
    /\ CanCall /\ Idle /\ conf_.set
    /\ Call("Init")
    /\ \E r \in EtcdErrCode, g \in EtcdErrCode, ok \in BOOLEAN :
          LET e == InitEtcdClient(r, g) IN
          /\ SetEtcd(e)
          /\ IF e.fatal # "none"
             THEN /\ fatal' = e.fatal
                  /\ UNCHANGED <<inited_, fsManager_>>
             ELSE IF ~ok
             THEN /\ fatal' = "fsManager Init fail"
                  /\ fsManager_' = "created"
                  /\ UNCHANGED inited_
             ELSE /\ fatal' = "none"
                  /\ fsManager_' = "inited"
                  /\ inited_' = TRUE
    /\ UNCHANGED <<confVars, running_, statusVars, rpcVars, quitVars, elecVars, pc>>

\* Run that goes on after server.Start() failed.
RunServer_IgnoreStartFailure(addOk, startOk) ==
    /\ addServiceCount' = addServiceCount + 1
    /\ IF ~addOk
       THEN /\ fatal' = "add mdsService error"
            /\ UNCHANGED <<server, serverStarts, pc>>
       ELSE IF ~startOk
       THEN /\ fatal' = "none"
            /\ pc' = "run_started"
            /\ UNCHANGED <<server, serverStarts>>
       ELSE /\ fatal' = "none"
            /\ server' = "running"
            /\ serverStarts' = serverStarts + 1
            /\ pc' = "run_started"

\* Mds::Run past the inited_ check: AddService (addOk), server.Start (startOk).
RunServer(addOk, startOk) ==
    /\ addServiceCount' = addServiceCount + 1
    /\ IF ~addOk
       THEN /\ fatal' = "add mdsService error"
            /\ UNCHANGED <<server, serverStarts, pc>>
       ELSE IF ~startOk
       THEN /\ fatal' = "start brpc server error"
            /\ UNCHANGED <<server, serverStarts, pc>>
       ELSE /\ fatal' = "none"
            /\ server' = "running"
            /\ serverStarts' = serverStarts + 1
            /\ pc' = "run_started"

\* Run without the inited_ check.
Run_NoInitedCheck ==
    /\ CanCall /\ Idle
    /\ Call("Run")
    /\ \E addOk \in BOOLEAN, startOk \in BOOLEAN : RunServer(addOk, startOk)
    /\ UNCHANGED <<confVars, lifeVars, etcdVars, statusVars, quitVars, elecVars>>

\* Mds::Run up to the successful server.Start().
Run ==
    /\ CanCall /\ Idle
    /\ Call("Run")
    /\ \E addOk \in BOOLEAN, startOk \in BOOLEAN :
          IF ~inited_
          THEN UNCHANGED <<rpcVars, fatal, pc>>
          ELSE RunServer(addOk, startOk)
    /\ UNCHANGED <<confVars, lifeVars, etcdVars, statusVars, quitVars, elecVars>>

\* Mds::Run: running_ = true, after which the thread enters RunUntilAskedToQuit().
RunSetRunning ==
    /\ Alive /\ pc = "run_started"
    /\ running_' = TRUE
    /\ pc' = "run_blocked"
    /\ UNCHANGED <<confVars, inited_, fsManager_, etcdVars, statusVars, rpcVars,
                   quitVars, elecVars, callVars, fatal>>

\* server.RunUntilAskedToQuit() returns once the process was asked to quit; it
\* stops the server, and Run returns.
RunUntilAskedToQuit ==
    /\ Alive /\ pc = "run_blocked"
    /\ askedToQuit
    /\ server' = "stopped"
    /\ pc' = "idle"
    /\ UNCHANGED <<confVars, lifeVars, etcdVars, statusVars, serverStarts,
                   addServiceCount, quitVars, elecVars, callVars, fatal>>

\* The external quit signal (SIGTERM with --graceful_quit_on_sigterm, SIGINT).
QuitSignal ==
    /\ Alive /\ ~quitSignal
    /\ quitSignal' = TRUE
    /\ askedToQuit' = TRUE
    /\ UNCHANGED <<confVars, lifeVars, etcdVars, statusVars, rpcVars, askToQuitCount,
                   uninitCount, elecVars, callVars, fatal, pc>>

\* Stop without the running_ check.
Stop_NoRunningCheck ==
    /\ CanCall
    /\ Call("Stop")
    /\ askedToQuit' = TRUE
    /\ askToQuitCount' = askToQuitCount + 1
    /\ uninitCount' = uninitCount + 1
    /\ fsManager_' = "uninited"
    /\ UNCHANGED <<confVars, inited_, running_, etcdVars, statusVars, rpcVars,
                   elecVars, fatal, pc, quitSignal>>

\* Stop that releases the manager but never asks the server to quit.
Stop_NoAskToQuit ==
    /\ CanCall
    /\ Call("Stop")
    /\ IF ~running_
       THEN UNCHANGED <<quitVars, fsManager_>>
       ELSE /\ uninitCount' = uninitCount + 1
            /\ fsManager_' = "uninited"
            /\ UNCHANGED <<askedToQuit, askToQuitCount, quitSignal>>
    /\ UNCHANGED <<confVars, inited_, running_, etcdVars, statusVars, rpcVars,
                   elecVars, fatal, pc>>

\* Mds::Stop, from the driver thread or from another thread.
Stop ==
    /\ CanCall
    /\ Call("Stop")
    /\ IF ~running_
       THEN UNCHANGED <<quitVars, fsManager_>>
       ELSE /\ askedToQuit' = TRUE
            /\ askToQuitCount' = askToQuitCount + 1
            /\ uninitCount' = uninitCount + 1
            /\ fsManager_' = "uninited"
            /\ UNCHANGED quitSignal
    /\ UNCHANGED <<confVars, inited_, running_, etcdVars, statusVars, rpcVars,
                   elecVars, fatal, pc>>

\* StartDummyServer that exposes the status without setting its value.
StartDummyServer_NoSetValue ==
    /\ CanCall /\ Idle /\ conf_.set
    /\ Call("StartDummyServer")
    /\ statusExposed' = TRUE
    /\ UNCHANGED status_
    /\ \E bindOk \in BOOLEAN :
          fatal' = IF bindOk THEN "none" ELSE "Start dummy server failed"
    /\ UNCHANGED <<confVars, lifeVars, etcdVars, rpcVars, quitVars, elecVars, pc>>

\* StartDummyServer that returns early on an object that is not initialised.
StartDummyServer_RequiresInited ==
    /\ CanCall /\ Idle /\ conf_.set
    /\ inited_
    /\ Call("StartDummyServer")
    /\ statusExposed' = TRUE
    /\ status_' = "follower"
    /\ \E bindOk \in BOOLEAN :
          fatal' = IF bindOk THEN "none" ELSE "Start dummy server failed"
    /\ UNCHANGED <<confVars, lifeVars, etcdVars, rpcVars, quitVars, elecVars, pc>>

\* Mds::StartDummyServer: expose, set_value("follower"), StartDummyServerAt (bindOk).
StartDummyServer ==
    /\ CanCall /\ Idle /\ conf_.set
    /\ Call("StartDummyServer")
    /\ statusExposed' = TRUE
    /\ status_' = "follower"
    /\ \E bindOk \in BOOLEAN :
          fatal' = IF bindOk THEN "none" ELSE "Start dummy server failed"
    /\ UNCHANGED <<confVars, lifeVars, etcdVars, rpcVars, quitVars, elecVars, pc>>

\* StartCompaginLeader that builds the election without calling InitEtcdClient.
StartCompaginLeader_NoEtcdInit ==
    /\ CanCall /\ Idle /\ conf_.set
    /\ Call("StartCompaginLeader")
    /\ IF "leader" \notin conf_.keys
       THEN /\ fatal' = "GetValueFatalIfFail"
            /\ UNCHANGED <<leaderElection_, campaignCalls, campaignFails, retried, pc>>
       ELSE /\ fatal' = "none"
            /\ leaderElection_' = "created"
            /\ campaignCalls' = 0
            /\ campaignFails' = 0
            /\ retried' = FALSE
            /\ pc' = "campaign"
    /\ UNCHANGED <<confVars, lifeVars, etcdVars, statusVars, rpcVars, quitVars, wonCount,
                   observerStarts, observerStatus>>

\* Mds::StartCompaginLeader up to the campaign loop: InitEtcdClient,
\* InitLeaderElectionOption (reads the leader.* keys), InitLeaderElection.
StartCompaginLeader ==
    /\ CanCall /\ Idle /\ conf_.set
    /\ Call("StartCompaginLeader")
    /\ \E r \in EtcdErrCode, g \in EtcdErrCode :
          LET e == InitEtcdClient(r, g) IN
          /\ SetEtcd(e)
          /\ IF e.fatal # "none"
             THEN /\ fatal' = e.fatal
                  /\ UNCHANGED <<leaderElection_, campaignCalls, campaignFails, retried, pc>>
             ELSE IF "leader" \notin conf_.keys
             THEN /\ fatal' = "GetValueFatalIfFail"
                  /\ UNCHANGED <<leaderElection_, campaignCalls, campaignFails, retried, pc>>
             ELSE /\ fatal' = "none"
                  /\ leaderElection_' = "created"
                  /\ campaignCalls' = 0
                  /\ campaignFails' = 0
                  /\ retried' = FALSE
                  /\ pc' = "campaign"
    /\ UNCHANGED <<confVars, lifeVars, statusVars, rpcVars, quitVars, wonCount,
                   observerStarts, observerStatus>>

\* The campaign loop with its condition inverted: it ends on the first failure.
CampaginLeader_ExitOnFailure ==
    /\ Alive /\ pc = "campaign"
    /\ \E rc \in {0, 1} :
          IF rc = 0
          THEN /\ campaignCalls < MaxFails
               /\ campaignCalls' = campaignCalls + 1
               /\ wonCount' = wonCount + 1
               /\ UNCHANGED <<campaignFails, leaderElection_, observerStarts, observerStatus,
                              retried, statusVars, pc>>
          ELSE /\ campaignCalls' = campaignCalls + 1
               /\ campaignFails' = campaignFails + 1
               /\ status_' = "leader"
               /\ leaderElection_' = "observing"
               /\ observerStarts' = observerStarts + 1
               /\ observerStatus' = "leader"
               /\ pc' = "idle"
               /\ UNCHANGED <<wonCount, statusExposed, retried>>
    /\ UNCHANGED <<confVars, lifeVars, etcdVars, rpcVars, quitVars, callVars, fatal>>

\* The campaign loop that gives up and returns after a failed attempt.
CampaginLeader_GiveUp ==
    /\ Alive /\ pc = "campaign"
    /\ \E rc \in {0, 1} :
          IF rc # 0
          THEN /\ campaignCalls' = campaignCalls + 1
               /\ campaignFails' = campaignFails + 1
               /\ pc' = "idle"
               /\ UNCHANGED <<leaderElection_, wonCount, observerStarts, observerStatus,
                              retried, statusVars>>
          ELSE /\ campaignCalls' = campaignCalls + 1
               /\ wonCount' = wonCount + 1
               /\ status_' = "leader"
               /\ leaderElection_' = "observing"
               /\ observerStarts' = observerStarts + 1
               /\ observerStatus' = status_'
               /\ pc' = "idle"
               /\ UNCHANGED <<campaignFails, statusExposed, retried>>
    /\ UNCHANGED <<confVars, lifeVars, etcdVars, rpcVars, quitVars, callVars, fatal>>

\* The campaign loop with a failed attempt made fatal.
CampaginLeader_FatalOnFailure ==
    /\ Alive /\ pc = "campaign"
    /\ \E rc \in {0, 1} :
          IF rc # 0
          THEN /\ campaignCalls' = campaignCalls + 1
               /\ campaignFails' = campaignFails + 1
               /\ fatal' = "GetValueFatalIfFail"
               /\ UNCHANGED <<leaderElection_, wonCount, observerStarts, observerStatus,
                              retried, statusVars, pc>>
          ELSE /\ campaignCalls' = campaignCalls + 1
               /\ wonCount' = wonCount + 1
               /\ status_' = "leader"
               /\ leaderElection_' = "observing"
               /\ observerStarts' = observerStarts + 1
               /\ observerStatus' = status_'
               /\ pc' = "idle"
               /\ UNCHANGED <<campaignFails, statusExposed, retried, fatal>>
    /\ UNCHANGED <<confVars, lifeVars, etcdVars, rpcVars, quitVars, callVars>>

\* The campaign loop that starts the observer before it sets the status.
CampaginLeader_ObserverFirst ==
    /\ Alive /\ pc = "campaign"
    /\ \E rc \in {0, 1} :
          IF rc # 0
          THEN /\ campaignFails < MaxFails
               /\ campaignCalls' = campaignCalls + 1
               /\ campaignFails' = campaignFails + 1
               /\ UNCHANGED <<leaderElection_, wonCount, observerStarts, observerStatus,
                              retried, statusVars, pc>>
          ELSE /\ campaignCalls' = campaignCalls + 1
               /\ wonCount' = wonCount + 1
               /\ leaderElection_' = "observing"
               /\ observerStarts' = observerStarts + 1
               /\ observerStatus' = status_
               /\ status_' = "leader"
               /\ pc' = "idle"
               /\ UNCHANGED <<campaignFails, statusExposed, retried>>
    /\ UNCHANGED <<confVars, lifeVars, etcdVars, rpcVars, quitVars, callVars, fatal>>

\* One pass of the loop of StartCompaginLeader: CampaginLeader() returned rc.  On 0
\* the loop ends, the status becomes "leader" and then the observer is started
\* (observerStatus is the status it finds).
CampaginLeader ==
    /\ Alive /\ pc = "campaign"
    /\ \E rc \in {0, 1} :
          IF rc # 0
          THEN /\ campaignFails < MaxFails
               /\ campaignCalls' = campaignCalls + 1
               /\ campaignFails' = campaignFails + 1
               /\ UNCHANGED <<leaderElection_, wonCount, observerStarts, observerStatus,
                              retried, statusVars, pc>>
          ELSE /\ campaignCalls' = campaignCalls + 1
               /\ wonCount' = wonCount + 1
               /\ status_' = "leader"
               /\ leaderElection_' = "observing"
               /\ observerStarts' = observerStarts + 1
               /\ observerStatus' = status_'
               /\ pc' = "idle"
               /\ UNCHANGED <<campaignFails, statusExposed, retried>>
    /\ UNCHANGED <<confVars, lifeVars, etcdVars, rpcVars, quitVars, callVars, fatal>>

\* A pass of the loop that fails after MaxFails failures were counted: the loop has
\* no bound, the counters stay at their bound and retried flips.
CampaginLeaderAgain ==
    /\ Alive /\ pc = "campaign"
    /\ campaignFails = MaxFails
    /\ retried' = ~retried
    /\ UNCHANGED <<confVars, lifeVars, etcdVars, statusVars, rpcVars, quitVars, callVars,
                   fatal, pc, leaderElection_, campaignCalls, campaignFails, wonCount,
                   observerStarts, observerStatus>>

Next ==
    \/ InitOptions
    \/ MdsInit
    \/ Run
    \/ RunSetRunning
    \/ RunUntilAskedToQuit
    \/ QuitSignal
    \/ Stop
    \/ StartDummyServer
    \/ StartCompaginLeader
    \/ CampaginLeader

Spec == Init /\ [][Next]_vars


\* The same program with the campaign loop free to fail without bound.  The driver
\* thread keeps running, so a pass of the loop that can be taken is taken.
NextRetry == Next \/ CampaginLeaderAgain

SpecRetry == Init /\ [][NextRetry]_vars /\ WF_vars(CampaginLeader \/ CampaginLeaderAgain)

\* The documented driver: one thread calls InitOptions, Init, StartDummyServer,
\* StartCompaginLeader and Run in that order, and Stop once Run has returned.
DriverInitOptions == lastOp = "none" /\ InitOptions
DriverInit == lastOp = "InitOptions" /\ MdsInit
DriverStartDummyServer == lastOp = "Init" /\ StartDummyServer
DriverStartCompaginLeader == lastOp = "StartDummyServer" /\ StartCompaginLeader
DriverRun == lastOp = "StartCompaginLeader" /\ Run
DriverStop == lastOp \in {"Run", "Stop"} /\ Idle /\ Stop

NextDriver ==
    \/ DriverInitOptions
    \/ DriverInit
    \/ DriverStartDummyServer
    \/ DriverStartCompaginLeader
    \/ CampaginLeader
    \/ DriverRun
    \/ RunSetRunning
    \/ RunUntilAskedToQuit
    \/ QuitSignal
    \/ DriverStop

SpecDriver == Init /\ [][NextDriver]_vars

(***************************************************************************)
(* Properties                                                              *)
(***************************************************************************)

\* Every variable but the call bookkeeping.
stateVars == <<confVars, lifeVars, etcdVars, statusVars, rpcVars, quitVars, elecVars,
               fatal, pc>>

\* C1: Run() called while inited_ is false returns at once: no AddService, no
\* server start, the driver does not block, the process does not end, and
\* inited_, running_, etcdClientInited_ and the status are unchanged.
C1_RunBeforeInit ==
    [][(Call("Run") /\ ~inited_) =>
          /\ pc' = "idle"
          /\ UNCHANGED <<addServiceCount, serverStarts, server>>
          /\ UNCHANGED <<inited_, running_, etcdClientInited_, status_, statusExposed>>
          /\ UNCHANGED fatal]_vars

\* Run() has been called on an object with options loaded but not initialised.
C1_Witness ==
    lastOp = "Run" /\ ~inited_ /\ conf_.set /\ fatal = "none"

\* C2: Stop() called while running_ is false issues neither AskToQuit() nor
\* Uninit() and changes no field.
C2_StopNotRunning ==
    [][(Call("Stop") /\ ~running_) => UNCHANGED stateVars]_vars

\* Stop() has been called on an initialised object that never ran.
C2_Witness ==
    lastOp = "Stop" /\ inited_ /\ ~running_ /\ serverStarts = 0

\* C3 (as claimed): over any sequence of operations Stop issues the quit request
\* and the manager's Uninit() at most once each.
C3_StopIssuesAtMostOnce ==
    askToQuitCount <= 1 /\ uninitCount <= 1

\* C4 (as claimed): a Run() call made when the state is already Running or
\* Stopped (running_ was set by an earlier Run) starts no RPC server.
C4_NoSecondServerStart ==
    [][(Call("Run") /\ running_) => serverStarts' = serverStarts]_vars

\* C5: the client Init and the probe are performed at most once, both exactly once
\* when the client is marked initialised, and an Init() or StartCompaginLeader()
\* entered with the client initialised leaves the etcd fields and counts unchanged.
C5_EtcdClientInitOnce ==
    /\ [](/\ etcdInitCount <= 1
          /\ probeCount <= 1
          /\ (etcdClientInited_ => etcdInitCount = 1 /\ probeCount = 1))
    /\ [][((Call("Init") \/ Call("StartCompaginLeader")) /\ etcdClientInited_)
            => UNCHANGED etcdVars]_vars

\* Both Init() and StartCompaginLeader() went through InitEtcdClient.
C5_Witness ==
    inited_ /\ leaderElection_ # "null" /\ etcdClientInited_ /\ etcdInitCount = 1

\* C6: after the probe returned a status, the client is marked initialised iff the
\* status is EtcdOK or EtcdKeyNotExist; those never end the process with "Check
\* etcd failed", and every other status does, with the client not marked.
C6_ProbeClassification ==
    probeResult # "none" =>
        /\ (etcdClientInited_ <=> probeResult \in {"EtcdOK", "EtcdKeyNotExist"})
        /\ (probeResult \in {"EtcdOK", "EtcdKeyNotExist"} => fatal # "Check etcd failed")
        /\ (probeResult \notin {"EtcdOK", "EtcdKeyNotExist"}
              => fatal = "Check etcd failed" /\ ~etcdClientInited_)

\* The probe found no "test" key and the process went on.
C6_Witness ==
    probeResult = "EtcdKeyNotExist" /\ etcdClientInited_ /\ fatal = "none"

\* C7 (as claimed): once the status is "leader" it stays "leader".
C7_LeaderNeverReverts ==
    [][status_ = "leader" => status_' = "leader"]_vars

\* C8: while the loop runs every CampaginLeader() call so far has failed; the
\* call returns after exactly one more call than there were failures, with the
\* status "leader"; and the status is "leader" only after some call returned 0.
C8_CampaignRetryCount ==
    /\ [](pc = "campaign" => campaignCalls = campaignFails)
    /\ [](status_ = "leader" => wonCount > 0)
    /\ [][(pc = "campaign" /\ pc' = "idle")
            => (campaignCalls' = campaignFails' + 1 /\ status_' = "leader")]_vars

\* StartCompaginLeader() returned after two failures and one success.
C8_Witness ==
    /\ pc = "idle" /\ lastOp = "StartCompaginLeader"
    /\ campaignFails = 2 /\ campaignCalls = 3 /\ wonCount = 1 /\ status_ = "leader"

\* C9 (as claimed): the status is always "follower" or "leader".
C9_StatusFollowerOrLeader ==
    status_ \in {"follower", "leader"}

\* C9 (amended): the status is "follower" or "leader", or still the default
\* value, and that only while it was never exposed and no campaign was won.
C9_StatusValues ==
    \/ status_ \in {"follower", "leader"}
    \/ (status_ = "" /\ ~statusExposed /\ wonCount = 0)

\* The status is exposed and went from "follower" to "leader".
C9_Witness ==
    statusExposed /\ status_ = "leader" /\ wonCount > 0

\* C10 (as claimed): Run() leaves RunUntilAskedToQuit() only after an external
\* quit signal.
C10_OnlyExternalSignalUnblocks ==
    [][(pc = "run_blocked" /\ pc' = "idle") => quitSignal]_vars

\* C10 (amended): a Stop() called while Run() is blocked asks the server to quit,
\* and Run() leaves RunUntilAskedToQuit() only after Stop's AskToQuit() or an
\* external quit signal.
C10_QuitRequestUnblocks ==
    /\ [][(Call("Stop") /\ pc = "run_blocked")
            => (askedToQuit' /\ askToQuitCount' = askToQuitCount + 1)]_vars
    /\ [][(pc = "run_blocked" /\ pc' = "idle")
            => (quitSignal \/ askToQuitCount > 0)]_vars

\* Run() returned after a Stop() and without any external quit signal.
C10_Witness ==
    pc = "idle" /\ server = "stopped" /\ ~quitSignal /\ askToQuitCount > 0

\* Probe statuses InitEtcdClient accepts.
Healthy == {"EtcdOK", "EtcdKeyNotExist"}

\* C11: an Init() on an object not yet initialised either sets inited_, and then
\* the client Init returned EtcdOK, the probe was healthy and the manager's Init()
\* returned true, or ends the process with inited_ false and no server ever
\* started; inited_ always implies a healthy, initialised client.
C11_InitOnlyWhenHealthy ==
    /\ [](inited_ => (etcdClientInited_ /\ etcdClient_ = "ready" /\ probeResult \in Healthy))
    /\ [][(Call("Init") /\ ~inited_) =>
            \/ /\ inited_' /\ fatal' = "none"
               /\ etcdClient_' = "ready" /\ probeResult' \in Healthy
               /\ fsManager_' = "inited"
            \/ /\ ~inited_' /\ fatal' # "none"
               /\ serverStarts' = 0 /\ server' = "none"]_vars

\* Init() ended the process because the client Init did not return EtcdOK.
C11_Witness ==
    lastOp = "Init" /\ fatal = "Init etcd client error" /\ ~inited_ /\ serverStarts = 0

\* C12: the election object exists only with the client marked initialised after
\* an EtcdOK Init and a healthy probe, and no CampaginLeader() call is made with
\* etcdClientInited_ false.
C12_ElectorAfterHealthyClient ==
    /\ [](leaderElection_ # "null"
            => (etcdClientInited_ /\ etcdClient_ = "ready" /\ probeResult \in Healthy))
    /\ [](pc = "campaign" => etcdClientInited_)
    /\ [][(pc = "campaign" /\ campaignCalls' # campaignCalls) => etcdClientInited_]_vars

\* A campaign is under way on an object whose client StartCompaginLeader() itself
\* initialised.
C12_Witness ==
    pc = "campaign" /\ campaignCalls > 0 /\ etcdClientInited_ /\ ~inited_

\* C13: running_ implies a successful server start; running_ is set only with the
\* server running; and a Run() past the inited_ check either starts the server or
\* ends the process on the AddService/Start failure without setting running_.
C13_RunningOnlyAfterServerStart ==
    /\ [](running_ => (serverStarts >= 1 /\ addServiceCount >= 1))
    /\ [][(~running_ /\ running_') => (server = "running" /\ pc = "run_started")]_vars
    /\ [][(Call("Run") /\ inited_) =>
            \/ /\ fatal' = "none" /\ server' = "running"
               /\ serverStarts' = serverStarts + 1 /\ pc' = "run_started"
            \/ /\ fatal' \in {"add mdsService error", "start brpc server error"}
               /\ UNCHANGED <<running_, serverStarts, server>>]_vars

\* Run() ended the process on a failed server.Start(), running_ never set.
C13_Witness ==
    /\ lastOp = "Run" /\ fatal = "start brpc server error"
    /\ ~running_ /\ addServiceCount = 1 /\ serverStarts = 0

\* C14: a step of the campaign in which no call returns 0 keeps the driver in the
\* loop and the process alive, with the status and the observer untouched; the
\* call returns exactly on a CampaginLeader() that returns 0; no Run() is entered
\* from inside the loop; and the loop keeps retrying: it returns or fails again.
C14_CampaignRetriedWithoutBound ==
    /\ [][(pc = "campaign" /\ wonCount' = wonCount) =>
            /\ pc' = "campaign" /\ fatal' = "none"
            /\ UNCHANGED <<status_, observerStarts, leaderElection_>>]_vars
    /\ [][(pc = "campaign" /\ wonCount' # wonCount) => pc' = "idle"]_vars
    /\ [][pc = "campaign" => ~Call("Run")]_vars
    /\ ((pc = "campaign" /\ ~retried) ~> (pc = "idle" \/ retried))

\* More failures than are counted, and the loop still runs without a leader.
C14_Witness ==
    /\ pc = "campaign" /\ retried /\ campaignFails = 2 /\ campaignCalls = 2
    /\ wonCount = 0 /\ status_ # "leader" /\ observerStarts = 0 /\ fatal = "none"

\* C15: StartObserverLeader() always finds the status "leader"; it is called exactly
\* once by each StartCompaginLeader() that returns, in the step of the successful
\* CampaginLeader(), and never otherwise.
C15_ObserverAfterLeader ==
    /\ [](observerStatus \in {"none", "leader"})
    /\ [](observerStarts = wonCount)
    /\ [][observerStarts' # observerStarts =>
            /\ observerStarts' = observerStarts + 1
            /\ wonCount' = wonCount + 1
            /\ pc = "campaign" /\ pc' = "idle"]_vars
    /\ [][(pc = "campaign" /\ pc' = "idle") => observerStarts' = observerStarts + 1]_vars

\* Two calls of StartCompaginLeader() returned, each having started the observer.
C15_Witness ==
    observerStarts = 2 /\ wonCount = 2 /\ observerStatus = "leader" /\ pc = "idle"

\* C16: StartDummyServer() and StartCompaginLeader() can be entered whatever
\* inited_ and running_ are, and leave both unchanged; StartDummyServer() also
\* leaves the etcd client and the election object unchanged.
C16_SideChannelsIndependent ==
    /\ []((CanCall /\ Idle /\ conf_.set)
            => (ENABLED StartDummyServer /\ ENABLED StartCompaginLeader))
    /\ [][Call("StartDummyServer") =>
            UNCHANGED <<inited_, running_, etcdClientInited_, etcdClient_,
                        leaderElection_>>]_vars
    /\ [][(Call("StartCompaginLeader") \/ pc = "campaign")
            => UNCHANGED <<inited_, running_>>]_vars

\* StartDummyServer() was called on an object that had already run.
C16_Witness ==
    lastOp = "StartDummyServer" /\ running_ /\ inited_ /\ status_ = "follower"

\* C17: running_ implies inited_, and Stop calls Uninit() only on a manager whose
\* Init() returned true.
C17_RunningImpliesInited ==
    /\ [](running_ => inited_)
    /\ [][uninitCount' # uninitCount =>
            (running_ /\ inited_ /\ fsManager_ \in {"inited", "uninited"})]_vars

\* Stop has released the manager of a running object.
C17_Witness ==
    uninitCount = 1 /\ running_ /\ inited_ /\ fsManager_ = "uninited"

\* C18: under the documented driver the RPC server is started, and is up, only
\* with the status "leader".
C18_ServerStartsAsLeader ==
    /\ [](server = "running" => status_ = "leader")
    /\ [][serverStarts' # serverStarts => status_ = "leader"]_vars

\* The documented driver reached the blocking wait of Run() as leader.
C18_Witness ==
    server = "running" /\ pc = "run_blocked" /\ status_ = "leader" /\ lastOp = "Run"

\* C19 (as claimed): a Stop() called while the server Run() started is up issues
\* the quit request and Uninit().
C19_StopSeesRunningServer ==
    [][(Call("Stop") /\ server = "running") =>
          (askToQuitCount' = askToQuitCount + 1 /\ uninitCount' = uninitCount + 1)]_vars

====
